---------------------------- MODULE Spec2Model ----------------------------
(***************************************************************************)
(* The ATS scoring engine of the client library (atsApi): the local        *)
(* heuristic scorer, the three remote adapters, the suggestion generator   *)
(* and the orchestrator getATSScore with its local fallback; the ATS score *)
(* page that uploads a file and analyzes it; and the CVs that CVService    *)
(* saves in localStorage.                                                  *)
(*                                                                         *)
(* Representation.                                                         *)
(*  - A JavaScript string is a sequence of one-character strings, so that  *)
(*    toLowerCase, includes and split are computed character by character. *)
(*    The alphabet is ASCII (no character changes length when lowercased). *)
(*  - A JavaScript number that ends up in a result is held in hundredths   *)
(*    (Num(75) is 75, 7125 is 71.25), so that the fractional scores of the *)
(*    adapters are exact.  The local scorer's intermediate values are      *)
(*    exact rationals, rounded as Math.round rounds them; every (keyword   *)
(*    count, formatting, structure) combination was compared with IEEE     *)
(*    double arithmetic and agrees.                                        *)
(*  - An optional value (an absent field, undefined) is a sequence of      *)
(*    length 0 or 1.                                                       *)
(***************************************************************************)
EXTENDS Integers, Sequences, FiniteSets, TLC

Min(a, b) == IF a < b THEN a ELSE b
Max(a, b) == IF a > b THEN a ELSE b

\* The JavaScript number k, in hundredths.
Num(k) == 100 * k

\* Math.round on the rational n/d (d > 0): the nearest integer, halves up.
MathRound(n, d) == (2 * n + d) \div (2 * d)

(***************************************************************************)
(* Strings                                                                 *)
(***************************************************************************)
LowerOf ==
  [c \in {"A","B","C","D","E","F","G","H","I","J","K","L","M",
          "N","O","P","Q","R","S","T","U","V","W","X","Y","Z"} |->
     CASE c = "A" -> "a" [] c = "B" -> "b" [] c = "C" -> "c" [] c = "D" -> "d"
       [] c = "E" -> "e" [] c = "F" -> "f" [] c = "G" -> "g" [] c = "H" -> "h"
       [] c = "I" -> "i" [] c = "J" -> "j" [] c = "K" -> "k" [] c = "L" -> "l"
       [] c = "M" -> "m" [] c = "N" -> "n" [] c = "O" -> "o" [] c = "P" -> "p"
       [] c = "Q" -> "q" [] c = "R" -> "r" [] c = "S" -> "s" [] c = "T" -> "t"
       [] c = "U" -> "u" [] c = "V" -> "v" [] c = "W" -> "w" [] c = "X" -> "x"
       [] c = "Y" -> "y" [] c = "Z" -> "z"]

\* String.prototype.toLowerCase
toLowerCase(s) ==
  [i \in 1..Len(s) |-> IF s[i] \in DOMAIN LowerOf THEN LowerOf[s[i]] ELSE s[i]]

\* String.prototype.includes: k occurs in s as a contiguous substring.
includes(s, k) ==
  \E i \in 1..(Len(s) - Len(k) + 1) : \A j \in 1..Len(k) : s[i + j - 1] = k[j]

\* The characters the regular expression \s matches.
IsSpace(c) == c \in {" ", "\n", "\t"}

\* text.split(/\s+/).SelectSeq(word => word.length > 0).length: the number of
\* maximal runs of non-space characters.
wordsLength(s) ==
  Cardinality({i \in 1..Len(s) :
                 /\ ~IsSpace(s[i])
                 /\ (i = 1 \/ IsSpace(s[i - 1]))})

\* Array.prototype.slice(0, n)
slice(a, n) == SubSeq(a, 1, Min(n, Len(a)))

\* Array.prototype.includes
arrayIncludes(a, x) == \E i \in 1..Len(a) : a[i] = x

(***************************************************************************)
(* Keyword catalog                                                         *)
(***************************************************************************)
commonKeywords ==
  << <<"p","y","t","h","o","n">>,
     <<"j","a","v","a","s","c","r","i","p","t">>,
     <<"r","e","a","c","t">>,
     <<"n","o","d","e",".","j","s">>,
     <<"s","q","l">>,
     <<"a","w","s">>,
     <<"d","o","c","k","e","r">>,
     <<"k","u","b","e","r","n","e","t","e","s">>,
     <<"m","a","c","h","i","n","e"," ","l","e","a","r","n","i","n","g">>,
     <<"d","a","t","a"," ","a","n","a","l","y","s","i","s">>,
     <<"p","r","o","j","e","c","t"," ","m","a","n","a","g","e","m","e","n","t">>,
     <<"l","e","a","d","e","r","s","h","i","p">>,
     <<"c","o","m","m","u","n","i","c","a","t","i","o","n">>,
     <<"t","e","a","m","w","o","r","k">>,
     <<"p","r","o","b","l","e","m"," ","s","o","l","v","i","n","g">>,
     <<"a","n","a","l","y","t","i","c","a","l"," ","s","k","i","l","l","s">>,
     <<"a","g","i","l","e">>,
     <<"s","c","r","u","m">>,
     <<"g","i","t">>,
     <<"a","p","i">>,
     <<"r","e","s","t">>,
     <<"m","i","c","r","o","s","e","r","v","i","c","e","s">> >>

kwTable == <<"t","a","b","l","e">>
kwImage == <<"i","m","a","g","e">>
kwEmail == <<"e","m","a","i","l">>
kwAt == <<"@">>
kwExperience == <<"e","x","p","e","r","i","e","n","c","e">>
kwEducation == <<"e","d","u","c","a","t","i","o","n">>
kwSkills == <<"s","k","i","l","l","s">>

(***************************************************************************)
(* Suggestion generator                                                    *)
(***************************************************************************)
\* generateSuggestions with the boundaries 60 and 80 in the lower bands.
generateSuggestionsInclusive(score) ==
  IF score <= Num(60)
    THEN << "Add more relevant keywords from the job description",
            "Include quantifiable achievements and metrics",
            "Use action verbs to describe your experience" >>
    ELSE IF score <= Num(80)
      THEN << "Consider adding more industry-specific terminology",
              "Ensure all required sections are present",
              "Remove any complex formatting or tables" >>
      ELSE << "Great job! Your CV is well-optimized for ATS",
              "Consider customizing keywords for specific job applications" >>

\* score is in hundredths.
generateSuggestions(score) ==
  IF score < Num(60)
    THEN << "Add more relevant keywords from the job description",
            "Include quantifiable achievements and metrics",
            "Use action verbs to describe your experience" >>
    ELSE IF score < Num(80)
      THEN << "Consider adding more industry-specific terminology",
              "Ensure all required sections are present",
              "Remove any complex formatting or tables" >>
      ELSE << "Great job! Your CV is well-optimized for ATS",
              "Consider customizing keywords for specific job applications" >>

(***************************************************************************)
(* Local heuristic scorer                                                  *)
(***************************************************************************)
\* foundKeywords matching whole words (words.includes(keyword)) instead of
\* substrings of the text: a term with a space in it is never found.
foundKeywordsByWord(text) ==
  SelectSeq(commonKeywords,
            LAMBDA k : \E i \in 1..(Len(text) - Len(k) + 1) :
                         /\ \A j \in 1..Len(k) : text[i + j - 1] = k[j] /\ ~IsSpace(k[j])
                         /\ (i = 1 \/ IsSpace(text[i - 1]))
                         /\ (i + Len(k) > Len(text) \/ IsSpace(text[i + Len(k)])))

\* commonKeywords.SelectSeq(keyword => text.includes(keyword)), text lowercased
foundKeywords(text) == SelectSeq(commonKeywords, LAMBDA k : includes(text, k))

\* formattingScore with the two length thresholds inclusive and one penalty
\* for each layout word.
formattingScoreInclusive(text, nWords) ==
  100 - (IF includes(text, kwTable) THEN 30 ELSE 0)
      - (IF includes(text, kwImage) THEN 30 ELSE 0)
      - (IF nWords >= 2000 THEN 20 ELSE 0)
      - (IF nWords <= 200 THEN 15 ELSE 0)

\* formattingScore with the short-text threshold 200 mistyped as 2000.
formattingScoreShortBelow2000(text, nWords) ==
  100 - (IF includes(text, kwTable) \/ includes(text, kwImage) THEN 30 ELSE 0)
      - (IF nWords > 2000 THEN 20 ELSE 0)
      - (IF nWords < 2000 THEN 15 ELSE 0)

\* formattingScore with the short-text penalty skipped for an empty text.
formattingScoreSkipsEmpty(text, nWords) ==
  100 - (IF includes(text, kwTable) \/ includes(text, kwImage) THEN 30 ELSE 0)
      - (IF nWords > 2000 THEN 20 ELSE 0)
      - (IF nWords > 0 /\ nWords < 200 THEN 15 ELSE 0)

formattingScore(text, nWords) ==
  100 - (IF includes(text, kwTable) \/ includes(text, kwImage) THEN 30 ELSE 0)
      - (IF nWords > 2000 THEN 20 ELSE 0)
      - (IF nWords < 200 THEN 15 ELSE 0)

\* structureScore with the four checks chained by else: only the first
\* missing marker is penalised.
structureScoreElseChain(text) ==
  100 - (IF ~includes(text, kwEmail) /\ ~includes(text, kwAt) THEN 20
         ELSE IF ~includes(text, kwExperience) THEN 25
         ELSE IF ~includes(text, kwEducation) THEN 20
         ELSE IF ~includes(text, kwSkills) THEN 20
         ELSE 0)

\* structureScore asking for both "email" and "@" (|| for &&).
structureScoreEmailAndAt(text) ==
  100 - (IF ~includes(text, kwEmail) \/ ~includes(text, kwAt) THEN 20 ELSE 0)
      - (IF ~includes(text, kwExperience) THEN 25 ELSE 0)
      - (IF ~includes(text, kwEducation) THEN 20 ELSE 0)
      - (IF ~includes(text, kwSkills) THEN 20 ELSE 0)

\* structureScore with the "experience" penalty mistyped as 45.
structureScorePenalty45(text) ==
  100 - (IF ~includes(text, kwEmail) /\ ~includes(text, kwAt) THEN 20 ELSE 0)
      - (IF ~includes(text, kwExperience) THEN 45 ELSE 0)
      - (IF ~includes(text, kwEducation) THEN 20 ELSE 0)
      - (IF ~includes(text, kwSkills) THEN 20 ELSE 0)

structureScore(text) ==
  100 - (IF ~includes(text, kwEmail) /\ ~includes(text, kwAt) THEN 20 ELSE 0)
      - (IF ~includes(text, kwExperience) THEN 25 ELSE 0)
      - (IF ~includes(text, kwEducation) THEN 20 ELSE 0)
      - (IF ~includes(text, kwSkills) THEN 20 ELSE 0)

\* totalScore computed from the rounded keyword percentage of the breakdown.
totalScoreRoundedKeyword(nFound, nCatalog, formatting, structure) ==
  MathRound(4 * MathRound(100 * nFound, nCatalog) + 3 * (formatting + structure), 10)

\* Math.round(keywordScore * 0.4 + formattingScore * 0.3 + structureScore * 0.3)
\* with keywordScore = (nFound / nCatalog) * 100, as the exact rational
\* (400 nFound + 3 nCatalog (formatting + structure)) / (10 nCatalog).
totalScore(nFound, nCatalog, formatting, structure) ==
  MathRound(400 * nFound + 3 * nCatalog * (formatting + structure), 10 * nCatalog)

\* missingKeywordsOf keeping the last 5 unmatched terms (slice(-5)).
missingKeywordsLast5(found) ==
  LET unmatched == SelectSeq(commonKeywords, LAMBDA k : ~arrayIncludes(found, k))
  IN  SubSeq(unmatched, Max(1, Len(unmatched) - 4), Len(unmatched))

\* missingKeywordsOf with the filter forgotten: the first 5 catalog terms.
missingKeywordsUnfiltered(found) == slice(commonKeywords, 5)

\* commonKeywords.SelectSeq(k => !foundKeywords.includes(k)).slice(0, 5)
missingKeywordsOf(found) ==
  slice(SelectSeq(commonKeywords, LAMBDA k : ~arrayIncludes(found, k)), 5)

\* Math.max(0, Math.min(100, totalScore))
clampScore(total) == Max(0, Min(100, total))

\* calculateLocalATSScore with contentQuality added to the weighted sum at
\* 0.3 (weights 0.4 + 0.3 + 0.3 + 0.3) and the total returned as it is.
calculateLocalATSScoreWithContentQuality(cvText) ==
  LET text == toLowerCase(cvText)
      nWords == wordsLength(text)
      found == foundKeywords(text)
      formatting == formattingScore(text, nWords)
      structure == structureScore(text)
      total == totalScore(Len(found), Len(commonKeywords), formatting, structure + 75)
  IN  [ score |-> Num(total),
        suggestions |-> generateSuggestions(Num(total)),
        keywords |-> found,
        missingKeywords |-> missingKeywordsOf(found),
        breakdown |-> << [ keywordMatch |-> Num(MathRound(100 * Len(found), Len(commonKeywords))),
                           formatting |-> Num(MathRound(formatting, 1)),
                           structure |-> Num(MathRound(structure, 1)),
                           contentQuality |-> Num(75) ] >> ]

\* calculateLocalATSScore with the suggestions taken from the keyword
\* percentage instead of the total.
calculateLocalATSScoreSuggestsByKeywords(cvText) ==
  LET text == toLowerCase(cvText)
      nWords == wordsLength(text)
      found == foundKeywords(text)
      formatting == formattingScore(text, nWords)
      structure == structureScore(text)
      total == totalScore(Len(found), Len(commonKeywords), formatting, structure)
      keywordMatch == MathRound(100 * Len(found), Len(commonKeywords))
  IN  [ score |-> Num(clampScore(total)),
        suggestions |-> generateSuggestions(Num(keywordMatch)),
        keywords |-> found,
        missingKeywords |-> missingKeywordsOf(found),
        breakdown |-> << [ keywordMatch |-> Num(keywordMatch),
                           formatting |-> Num(MathRound(formatting, 1)),
                           structure |-> Num(MathRound(structure, 1)),
                           contentQuality |-> Num(75) ] >> ]

calculateLocalATSScore(cvText) ==
  LET text == toLowerCase(cvText)
      nWords == wordsLength(text)
      found == foundKeywords(text)
      formatting == formattingScore(text, nWords)
      structure == structureScore(text)
      total == totalScore(Len(found), Len(commonKeywords), formatting, structure)
  IN  [ score |-> Num(clampScore(total)),
        suggestions |-> generateSuggestions(Num(total)),
        keywords |-> found,
        missingKeywords |-> missingKeywordsOf(found),
        breakdown |-> << [ keywordMatch |-> Num(MathRound(100 * Len(found), Len(commonKeywords))),
                           formatting |-> Num(MathRound(formatting, 1)),
                           structure |-> Num(MathRound(structure, 1)),
                           contentQuality |-> Num(75) ] >> ]

(***************************************************************************)
(* Helpers of the remote adapters                                          *)
(***************************************************************************)
techKeywords ==
  << <<"p","y","t","h","o","n">>,
     <<"j","a","v","a","s","c","r","i","p","t">>,
     <<"r","e","a","c","t">>,
     <<"s","q","l">>,
     <<"a","w","s">> >>

actionVerbs ==
  << <<"d","e","v","e","l","o","p","e","d">>,
     <<"i","m","p","l","e","m","e","n","t","e","d">>,
     <<"m","a","n","a","g","e","d">>,
     <<"c","r","e","a","t","e","d">> >>

\* calculateBasicATSScore with the summary bonus taken off when there is no
\* non-trivial summary, instead of added when there is one.
calculateBasicATSScorePenalty(cvText, summary) ==
  LET text == toLowerCase(cvText)
      summaryLower == toLowerCase(summary)
      foundTech == SelectSeq(techKeywords, LAMBDA k : includes(text, k))
      foundVerbs == SelectSeq(actionVerbs, LAMBDA v : includes(text, v))
      score == Num(70)
               - (IF Len(summaryLower) > 50 THEN 0 ELSE Num(10))
               + (Len(foundTech) * Num(15)) \div Len(techKeywords)
               + (Len(foundVerbs) * Num(5)) \div Len(actionVerbs)
  IN  Min(Num(100), score)

\* The result is in hundredths: 70, +10 for a summary longer than 50
\* characters, + (found / 5) * 15, + (found / 4) * 5, at most 100.
calculateBasicATSScore(cvText, summary) ==
  LET text == toLowerCase(cvText)
      summaryLower == toLowerCase(summary)
      foundTech == SelectSeq(techKeywords, LAMBDA k : includes(text, k))
      foundVerbs == SelectSeq(actionVerbs, LAMBDA v : includes(text, v))
      score == Num(70)
               + (IF Len(summaryLower) > 50 THEN Num(10) ELSE 0)
               + (Len(foundTech) * Num(15)) \div Len(techKeywords)
               + (Len(foundVerbs) * Num(5)) \div Len(actionVerbs)
  IN  Min(Num(100), score)

extractKeywordsCatalog ==
  << <<"p","y","t","h","o","n">>,
     <<"j","a","v","a","s","c","r","i","p","t">>,
     <<"r","e","a","c","t">>,
     <<"n","o","d","e",".","j","s">>,
     <<"s","q","l">>,
     <<"a","w","s">>,
     <<"d","o","c","k","e","r">>,
     <<"p","r","o","j","e","c","t"," ","m","a","n","a","g","e","m","e","n","t">>,
     <<"l","e","a","d","e","r","s","h","i","p">>,
     <<"c","o","m","m","u","n","i","c","a","t","i","o","n">>,
     <<"t","e","a","m","w","o","r","k">> >>

extractKeywords(text) ==
  SelectSeq(extractKeywordsCatalog,
         LAMBDA k : includes(toLowerCase(text), toLowerCase(k)))

\* An entity of the entity-extraction response: its type, its salience in
\* thousandths (0.01 is 10) and its name.
IsTechnical(e) == e.type = "ORGANIZATION" \/ e.type = "OTHER"

\* The result is in hundredths.
calculateScoreFromEntities(entities, cvText) ==
  LET relevantEntities == SelectSeq(entities, LAMBDA e : e.salience > 10)
      hasTechnicalTerms == \E k \in 1..Len(entities) : IsTechnical(entities[k])
  IN  Min(Num(100),
          Num(70) + Min(Num(20), Len(relevantEntities) * Num(2))
                  + (IF hasTechnicalTerms THEN Num(10) ELSE 0))

(***************************************************************************)
(* Provider responses                                                      *)
(*                                                                         *)
(* A parsed JSON body is a record of optional fields; isNull is the JSON   *)
(* value null.  summary_text is the value of data[0]?.summary_text (absent *)
(* for an empty array, an object or an element without the field).         *)
(***************************************************************************)
EmptyData ==
  [ isNull |-> FALSE, score |-> <<>>, suggestions |-> <<>>, keywords |-> <<>>,
    missing_keywords |-> <<>>, summary_text |-> <<>>, entities |-> <<>> ]

NullData == [EmptyData EXCEPT !.isNull = TRUE]

\* What an adapter's mapping of a body ends with: a returned result, or a
\* thrown TypeError.
Returned(r) == [threw |-> FALSE, value |-> <<r>>]
Thrown == [threw |-> TRUE, value |-> <<>>]

\* x || d for an optional number: d when x is absent or 0.
OrNumber(x, d) == IF x = <<>> \/ x = <<0>> THEN d ELSE x[1]
\* x || [] for an optional array (an array, also an empty one, is truthy).
OrEmptyArray(x) == IF x = <<>> THEN <<>> ELSE x[1]
\* x || '' for an optional string.
OrEmptyString(x) == IF x = <<>> THEN <<>> ELSE x[1]

\* getResumeWordedScore, from the parsed body on.
mapResumeWorded(cvText, data) ==
  IF data.isNull THEN Thrown
  ELSE Returned([ score |-> OrNumber(data.score, Num(75)),
                  suggestions |-> OrEmptyArray(data.suggestions),
                  keywords |-> OrEmptyArray(data.keywords),
                  missingKeywords |-> OrEmptyArray(data.missing_keywords),
                  breakdown |-> <<>> ])

\* mapHuggingFace reporting sub-scores of its own in a breakdown.
mapHuggingFaceWithBreakdown(cvText, data) ==
  IF data.isNull THEN Thrown
  ELSE LET summary == OrEmptyString(data.summary_text)
           score == calculateBasicATSScore(cvText, summary)
       IN  Returned([ score |-> score,
                      suggestions |-> generateSuggestions(score),
                      keywords |-> extractKeywords(cvText),
                      missingKeywords |-> <<>>,
                      breakdown |-> << [ keywordMatch |-> score, formatting |-> score,
                                         structure |-> score, contentQuality |-> Num(75) ] >> ])

\* getHuggingFaceScore, from the parsed body on.
mapHuggingFace(cvText, data) ==
  IF data.isNull THEN Thrown
  ELSE LET summary == OrEmptyString(data.summary_text)
           score == calculateBasicATSScore(cvText, summary)
       IN  Returned([ score |-> score,
                      suggestions |-> generateSuggestions(score),
                      keywords |-> extractKeywords(cvText),
                      missingKeywords |-> <<>>,
                      breakdown |-> <<>> ])

\* getGoogleNLPScore, from the parsed body on.
mapGoogleNLP(cvText, data) ==
  IF data.isNull THEN Thrown
  ELSE LET entities == OrEmptyArray(data.entities)
           technicalEntities == SelectSeq(entities, IsTechnical)
           score == calculateScoreFromEntities(technicalEntities, cvText)
       IN  Returned([ score |-> score,
                      suggestions |-> generateSuggestions(score),
                      keywords |-> slice([k \in 1..Len(technicalEntities) |->
                                            technicalEntities[k].name], 10),
                      missingKeywords |-> <<>>,
                      breakdown |-> <<>> ])

adapterMap(apiPreference, cvText, data) ==
  CASE apiPreference = "resumeworded" -> mapResumeWorded(cvText, data)
    [] apiPreference = "huggingface" -> mapHuggingFace(cvText, data)
    [] apiPreference = "google" -> mapGoogleNLP(cvText, data)

\* The URL each adapter fetches.
Endpoint(apiPreference) ==
  CASE apiPreference = "resumeworded" -> "https://api.resumeworded.com/ats-score"
    [] apiPreference = "huggingface" ->
         "https://api-inference.huggingface.co/models/facebook/bart-large-cnn"
    [] apiPreference = "google" ->
         "https://language.googleapis.com/v1/documents:analyzeEntities?key=YOUR_GOOGLE_API_KEY"

\* The message each adapter logs in its catch block.
AdapterErrorLog(apiPreference) ==
  CASE apiPreference = "resumeworded" -> "ResumeWorded API error:"
    [] apiPreference = "huggingface" -> "Hugging Face API error:"
    [] apiPreference = "google" -> "Google NLP API error:"

(***************************************************************************)
(* Inputs: the texts and the provider responses the model draws from       *)
(***************************************************************************)
\* The number of invocation frames (callers that may hold an invocation).
NumInv == 2
\* The longest text of the free families, in tokens.
MaxFrags == 2

Invocations == 1..NumInv

RECURSIVE Flatten(_)
Flatten(ss) == IF ss = <<>> THEN <<>> ELSE Head(ss) \o Flatten(Tail(ss))

\* Every concatenation of at most n tokens of vocab.
TextsOver(vocab, n) ==
  {Flatten(ss) : ss \in UNION {[1..k -> vocab] : k \in 0..n}}

\* n filler words, each followed by a space.
Filler(n) == [i \in 1..(2 * n) |-> IF i % 2 = 1 THEN "x" ELSE " "]

\* t (ending with white space) followed by filler up to w words in all.
PadTo(t, w) == t \o Filler(Max(0, w - wordsLength(t)))

TokPython == <<"P","y","t","h","o","n"," ">>
TokDeveloped == <<"d","e","v","e","l","o","p","e","d"," ">>
TokExperience == <<"E","x","p","e","r","i","e","n","c","e","\n">>
TokAddress == <<"a","@","b",".","c"," ">>
TokRestApi == <<"R","E","S","T"," ","A","P","I","\n">>
TokMachineLearning == <<"m","a","c","h","i","n","e"," ","l","e","a","r","n","i","n","g"," ">>
TokMachineGapLearning == <<"m","a","c","h","i","n","e"," "," ","l","e","a","r","n","i","n","g"," ">>
TokTable == <<"t","a","b","l","e"," ">>
TokImage == <<"I","m","a","g","e","\t">>
TokEmail == <<"e","m","a","i","l"," ">>
TokEducation == <<"e","d","u","c","a","t","i","o","n"," ">>
TokAnalyticalSkills == <<"a","n","a","l","y","t","i","c","a","l"," ","s","k","i","l","l","s"," ">>
TokSkills == <<"s","k","i","l","l","s"," ">>
TokInterest == <<"i","n","t","e","r","e","s","t"," ">>

\* The four section markers, and every catalog keyword with the markers.
SectionMarkers == <<TokEmail, TokExperience, TokEducation, TokSkills>>
AllMarkers == Flatten(SectionMarkers)
AllKeywords ==
  Flatten([k \in 1..Len(commonKeywords) |-> commonKeywords[k] \o <<" ">>])
    \o TokEmail \o TokExperience \o TokEducation

\* Every catalog keyword, section marker and action verb.
FullResume ==
  AllKeywords \o Flatten([k \in 1..Len(actionVerbs) |-> actionVerbs[k] \o <<" ">>])

\* The texts of the orchestrator's specification.
Texts ==
  TextsOver({TokPython, TokDeveloped, TokExperience, TokAddress}, MaxFrags)
  \cup {FullResume}

\* The texts of the specification of concurrent invocations.
ConcTexts == {<<>>, TokPython \o TokDeveloped}

\* The section markers with the indices in S, in order.
MarkerText(S) ==
  Flatten([k \in 1..Len(SectionMarkers) |-> IF k \in S THEN SectionMarkers[k] ELSE <<>>])

\* The first n catalog keywords, each followed by a line break.
FirstKeywords(n) == Flatten([k \in 1..n |-> commonKeywords[k] \o <<"\n">>])

\* The texts of the local scorer's specification: short free texts, texts
\* at the word-count thresholds, texts with 0..22 catalog keywords and texts
\* with every subset of the section markers.
ScorerTexts ==
  TextsOver({TokPython, TokRestApi, TokMachineLearning, TokMachineGapLearning,
             TokTable, TokImage, TokEmail, TokAddress, TokExperience,
             TokEducation, TokAnalyticalSkills, TokSkills, TokInterest}, MaxFrags)
  \cup {PadTo(b, w) : b \in {<<>>, AllMarkers, AllKeywords, TokTable,
                             AllMarkers \o TokImage,
                             FirstKeywords(11) \o AllMarkers},
                      w \in {199, 200, 250, 500, 2000, 2001}}
  \cup {FirstKeywords(n) \o AllMarkers : n \in 0..Len(commonKeywords)}
  \cup {MarkerText(S) : S \in SUBSET (1..Len(SectionMarkers))}

\* The values of the argument apiPreference; "undefined" is the omitted one.
RemotePreferences == {"resumeworded", "huggingface", "google"}
PreferenceArgs == RemotePreferences \cup {"local", "undefined"}

\* An HTTP response: response.ok and the body (absent: response.json() rejects).
HttpResponse(ok, body) == [ok |-> ok, body |-> body]

Summary(n) == [i \in 1..n |-> "s"]

EntityOrg == [type |-> "ORGANIZATION", salience |-> 500, name |-> <<"a","c","m","e">>]
EntityPerson == [type |-> "PERSON", salience |-> 900, name |-> <<"j","a","n","e">>]
EntityOtherFaint == [type |-> "OTHER", salience |-> 5, name |-> <<"m","i","s","c">>]

\* The responses every provider can give: a non-success status, an
\* unparsable body, the body null and the body {} (or []).
CommonResponses ==
  { HttpResponse(FALSE, <<>>), HttpResponse(TRUE, <<>>),
    HttpResponse(TRUE, <<NullData>>), HttpResponse(TRUE, <<EmptyData>>) }

Responses(apiPreference) ==
  CommonResponses \cup
  CASE apiPreference = "resumeworded" ->
         { HttpResponse(TRUE, <<[EmptyData EXCEPT !.score = <<sc>>]>>) :
             sc \in {0, Num(88), Num(150), -Num(5), 8250} }
         \cup { HttpResponse(TRUE, <<[EmptyData EXCEPT
                    !.score = <<Num(64)>>,
                    !.suggestions = << <<"Tailor the summary">> >>,
                    !.keywords = << <<commonKeywords[1]>> >>,
                    !.missing_keywords = << <<commonKeywords[2], commonKeywords[3]>> >>]>>),
                HttpResponse(TRUE, <<[EmptyData EXCEPT
                    !.suggestions = << <<"Tailor the summary">> >>]>>) }
    [] apiPreference = "huggingface" ->
         { HttpResponse(TRUE, <<[EmptyData EXCEPT !.summary_text = <<Summary(n)>>]>>) :
             n \in {0, 50, 51} }
    [] apiPreference = "google" ->
         { HttpResponse(TRUE, <<[EmptyData EXCEPT !.entities = <<es>>]>>) :
             es \in { <<>>, <<EntityOrg>>, <<EntityPerson>>,
                      <<EntityOrg, EntityPerson, EntityOtherFaint>>,
                      [k \in 1..11 |-> EntityOrg] } }
    [] OTHER -> {}

\* The responses of the specification of concurrent invocations.
ConcResponses(apiPreference) ==
  { HttpResponse(FALSE, <<>>),
    HttpResponse(TRUE, <<[EmptyData EXCEPT !.score = <<Num(88)>>,
                                           !.summary_text = <<Summary(51)>>,
                                           !.entities = << <<EntityOrg>> >>]>>) }

(***************************************************************************)
(* One invocation of getATSScore: its frame (arguments, locals, position)  *)
(* and what it has done so far.                                            *)
(*   pc: "idle" (no invocation), "Attempting" (in the try block, before    *)
(*   the switch), "awaitFetch", "fetched", "awaitJson" (inside the         *)
(*   adapter), "adapterCatch" (the adapter's catch block), "Fallback" (the *)
(*   orchestrator's catch block), "Done" (the promise resolved with        *)
(*   result), "Rejected" (the promise rejected).                           *)
(*   fetch: "none", "pending", "network" (fetch rejected), "timeout" (the  *)
(*   transport's deadline rejected it), "response".                        *)
(*   requests: the URLs fetched.  strategyCalls, fallbackCalls: the calls  *)
(*   of the selected strategy and of the local scorer in the catch block.  *)
(*   errors: what the invocation wrote with console.error.                 *)
(***************************************************************************)
\* inv: the frames of the invocations of getATSScore.
\* page: the state of the ATS score page (its useState cells and the
\*   FileReaders that have not delivered yet).
\* savedCVs: the localStorage item 'savedCVs'; now: the clock of Date.now().
VARIABLES inv, page, savedCVs, now

vars == <<inv, page, savedCVs, now>>

IdleFrame ==
  [ pc |-> "idle", cvText |-> <<>>, prefArg |-> "undefined", apiPreference |-> "local",
    fetch |-> "none", response |-> <<>>, result |-> <<>>, requests |-> <<>>,
    strategyCalls |-> 0, fallbackCalls |-> 0, errors |-> <<>> ]

\* DefaultPreference with a remote provider as the default.
DefaultPreferenceRemote(prefArg) ==
  IF prefArg = "undefined" THEN "resumeworded" ELSE prefArg

\* The default value of the parameter apiPreference.
DefaultPreference(prefArg) == IF prefArg = "undefined" THEN "local" ELSE prefArg

\* getATSScore is called: the parameters are bound and the try block entered.
getATSScoreEnter(cvText, prefArg) ==
  [IdleFrame EXCEPT !.pc = "Attempting", !.cvText = cvText, !.prefArg = prefArg,
                    !.apiPreference = DefaultPreference(prefArg)]

\* case 'resumeworded' | 'huggingface' | 'google': the adapter is called and
\* awaits its fetch.
invokeAdapter(f) ==
  [f EXCEPT !.pc = "awaitFetch", !.fetch = "pending",
            !.strategyCalls = @ + 1,
            !.requests = Append(@, Endpoint(f.apiPreference))]

\* invokeLocal with the result memoised in a module-level variable whatever
\* the text: a result some invocation holds is returned instead of a new one.
invokeLocalMemoised(f) ==
  [f EXCEPT !.pc = "Done", !.strategyCalls = @ + 1,
            !.result = IF \E j \in Invocations : inv[j].result # <<>>
                         THEN inv[CHOOSE j \in Invocations : inv[j].result # <<>>].result
                         ELSE <<calculateLocalATSScore(f.cvText)>>]

\* case 'local', default: return calculateLocalATSScore(cvText).
invokeLocal(f) ==
  [f EXCEPT !.pc = "Done", !.strategyCalls = @ + 1,
            !.result = <<calculateLocalATSScore(f.cvText)>>]

\* fetchRejected with the transport's timeout not handled as a failure: the
\* adapter keeps waiting for a response that will not come.
fetchRejectedTimeoutIgnored(f, why) ==
  IF why = "timeout"
    THEN [f EXCEPT !.pc = "hung", !.fetch = why]
    ELSE [f EXCEPT !.pc = "adapterCatch", !.fetch = why]

\* The fetch promise rejects: control enters the adapter's catch block.
fetchRejected(f, why) == [f EXCEPT !.pc = "adapterCatch", !.fetch = why]

\* The fetch promise resolves with a response.
fetchResolved(f, r) == [f EXCEPT !.pc = "fetched", !.fetch = "response", !.response = <<r>>]

\* if (!response.ok) throw ...; otherwise await response.json().
checkStatus(f) ==
  [f EXCEPT !.pc = IF f.response[1].ok THEN "awaitJson" ELSE "adapterCatch"]

\* response.json() settles; on a parsed body the adapter maps it.
parseAndMap(f) ==
  LET body == f.response[1].body
      mapped == adapterMap(f.apiPreference, f.cvText, body[1])
  IN  IF body = <<>> \/ mapped.threw
        THEN [f EXCEPT !.pc = "adapterCatch"]
        ELSE [f EXCEPT !.pc = "Done", !.result = mapped.value]

\* adapterCatch throwing without logging the provider's error.
adapterCatchSilent(f) == [f EXCEPT !.pc = "Fallback"]

\* The adapter's catch block: console.error, then throw new Error(...), which
\* arrives in the catch block of getATSScore.
adapterCatch(f) ==
  [f EXCEPT !.pc = "Fallback", !.errors = Append(@, AdapterErrorLog(f.apiPreference))]

\* getATSScoreCatch returning an empty default instead of the local score.
getATSScoreCatchDefault(f) ==
  [f EXCEPT !.pc = "Done", !.fallbackCalls = @ + 1,
            !.errors = Append(@, "API failed, falling back to local analysis:"),
            !.result = <<[ score |-> 0, suggestions |-> <<>>, keywords |-> <<>>,
                           missingKeywords |-> <<>>, breakdown |-> <<>> ]>>]

\* getATSScoreCatch logging the error and throwing it again.
getATSScoreCatchRethrow(f) ==
  [f EXCEPT !.pc = "Rejected",
            !.errors = Append(@, "API failed, falling back to local analysis:")]

\* getATSScoreCatch trying the selected strategy again.
getATSScoreCatchRetry(f) ==
  [f EXCEPT !.pc = "Attempting",
            !.errors = Append(@, "API failed, falling back to local analysis:")]

\* The catch block of getATSScore.
getATSScoreCatch(f) ==
  [f EXCEPT !.pc = "Done", !.fallbackCalls = @ + 1,
            !.errors = Append(@, "API failed, falling back to local analysis:"),
            !.result = <<calculateLocalATSScore(f.cvText)>>]

\* store with the result kept in one module-level variable that every
\* invocation writes.
storeSharedResult(i, f) ==
  [j \in Invocations |-> IF j = i THEN f ELSE [inv[j] EXCEPT !.result = f.result]]

\* The frame of invocation i is local to it.
store(i, f) == [inv EXCEPT ![i] = f]

NoneInFlight == \A j \in Invocations : inv[j].pc = "idle"

(***************************************************************************)
(* Actions                                                                 *)
(***************************************************************************)
Call(i, cvText, prefArg) ==
  /\ inv[i].pc = "idle"
  /\ inv' = store(i, getATSScoreEnter(cvText, prefArg))
  /\ UNCHANGED <<page, savedCVs, now>>

InvokeAdapter(i) ==
  /\ inv[i].pc = "Attempting"
  /\ inv[i].apiPreference \in RemotePreferences
  /\ inv' = store(i, invokeAdapter(inv[i]))
  /\ UNCHANGED <<page, savedCVs, now>>

InvokeLocal(i) ==
  /\ inv[i].pc = "Attempting"
  /\ inv[i].apiPreference \notin RemotePreferences
  /\ inv' = store(i, invokeLocal(inv[i]))
  /\ UNCHANGED <<page, savedCVs, now>>

FetchReject(i, why) ==
  /\ inv[i].pc = "awaitFetch"
  /\ inv' = store(i, fetchRejected(inv[i], why))
  /\ UNCHANGED <<page, savedCVs, now>>

FetchResolve(i, r) ==
  /\ inv[i].pc = "awaitFetch"
  /\ inv' = store(i, fetchResolved(inv[i], r))
  /\ UNCHANGED <<page, savedCVs, now>>

CheckStatus(i) ==
  /\ inv[i].pc = "fetched"
  /\ inv' = store(i, checkStatus(inv[i]))
  /\ UNCHANGED <<page, savedCVs, now>>

ParseAndMap(i) ==
  /\ inv[i].pc = "awaitJson"
  /\ inv' = store(i, parseAndMap(inv[i]))
  /\ UNCHANGED <<page, savedCVs, now>>

AdapterCatch(i) ==
  /\ inv[i].pc = "adapterCatch"
  /\ inv' = store(i, adapterCatch(inv[i]))
  /\ UNCHANGED <<page, savedCVs, now>>

Fallback(i) ==
  /\ inv[i].pc = "Fallback"
  /\ inv' = store(i, getATSScoreCatch(inv[i]))
  /\ UNCHANGED <<page, savedCVs, now>>

\* The caller takes the settled promise; the frame is gone.
Return(i) ==
  /\ inv[i].pc \in {"Done", "Rejected"}
  /\ inv' = store(i, IdleFrame)
  /\ UNCHANGED <<page, savedCVs, now>>

\* The steps of invocation i that the event loop runs by itself.
Resume(i) ==
  \/ InvokeAdapter(i)
  \/ InvokeLocal(i)
  \/ CheckStatus(i)
  \/ ParseAndMap(i)
  \/ AdapterCatch(i)
  \/ Fallback(i)

\* The transport settles the request of invocation i.
Settle(i, responses) ==
  \/ \E why \in {"network", "timeout"} : FetchReject(i, why)
  \/ \E r \in responses : FetchResolve(i, r)

(***************************************************************************)
(* The ATS score page                                                      *)
(***************************************************************************)
\* The files the user can pick: what the input element reports of them and
\* the string FileReader.readAsText delivers for them.
PdfA == [name |-> "a.pdf", type |-> "application/pdf", content |-> TokPython \o TokDeveloped]
PdfB == [name |-> "b.pdf", type |-> "application/pdf", content |-> TokExperience \o TokEmail]
PdfEmpty == [name |-> "empty.pdf", type |-> "application/pdf", content |-> <<>>]
TextFile == [name |-> "notes.txt", type |-> "text/plain", content |-> TokSkills]

\* event.target.files: no file (the dialog was cancelled) or one file.
FileLists == {<<>>} \cup {<<f>> : f \in {PdfA, PdfB, PdfEmpty, TextFile}}

\* The useState cells after the first render; readers holds the files whose
\* FileReader has not fired onload yet, alert the last message alerted.
InitialPage ==
  [ uploadedFile |-> <<>>, atsScore |-> <<>>, atsResult |-> <<>>,
    isAnalyzing |-> FALSE, fileName |-> "", cvText |-> <<>>,
    readers |-> {}, alert |-> "" ]

\* handleFileUpload up to reader.readAsText(file).
handleFileUpload(p, files) ==
  IF files # <<>> /\ files[1].type = "application/pdf"
    THEN [p EXCEPT !.uploadedFile = files, !.fileName = files[1].name,
                   !.atsScore = <<>>, !.atsResult = <<>>,
                   !.readers = @ \cup {files[1]}]
    ELSE [p EXCEPT !.alert = "Please upload a PDF file"]

\* reader.onload of the reader of file: setCvText(text).
readerOnload(p, file) == [p EXCEPT !.cvText = file.content, !.readers = @ \ {file}]

\* The onClick of the Change File button.
changeFile(p) == [p EXCEPT !.uploadedFile = <<>>, !.fileName = "", !.atsScore = <<>>]

\* handleAnalyze stops at its guard: !uploadedFile || !cvText.
handleAnalyzeGuard(p) == p.uploadedFile = <<>> \/ p.cvText = <<>>

\* handleAnalyze after await getATSScore(cvText, 'local'), with the frame f
\* of that call: setAtsResult, setAtsScore and, finally, setIsAnalyzing.
handleAnalyzeResume(p, f) ==
  [p EXCEPT !.atsResult = f.result, !.atsScore = <<f.result[1].score>>,
            !.isAnalyzing = FALSE]

\* The user picks files in the input element, which is there whether a file
\* is selected or not.
FileUpload(files) ==
  /\ ~page.isAnalyzing
  /\ page' = handleFileUpload(page, files)
  /\ UNCHANGED <<inv, savedCVs, now>>

\* A FileReader delivers; the readers deliver in any order.
ReaderOnload(file) ==
  /\ ~page.isAnalyzing
  /\ file \in page.readers
  /\ page' = readerOnload(page, file)
  /\ UNCHANGED <<inv, savedCVs, now>>

\* Change File is rendered while a file is selected.
ChangeFileClick ==
  /\ ~page.isAnalyzing
  /\ page.uploadedFile # <<>>
  /\ page' = changeFile(page)
  /\ UNCHANGED <<inv, savedCVs, now>>

\* The Analyze button (disabled without a file and while analyzing) is
\* clicked: handleAnalyze up to its await.
AnalyzeClick ==
  /\ page.uploadedFile # <<>> /\ ~page.isAnalyzing
  /\ IF handleAnalyzeGuard(page)
       THEN /\ page' = [page EXCEPT !.alert = "Please upload a PDF file first"]
            /\ UNCHANGED inv
       ELSE /\ page' = [page EXCEPT !.isAnalyzing = TRUE]
            /\ inv' = store(1, getATSScoreEnter(page.cvText, "local"))
  /\ UNCHANGED <<savedCVs, now>>

\* The continuation of handleAnalyze: it runs as soon as the promise of
\* getATSScore is fulfilled, before any other event (getATSScore never
\* rejects, so the catch block is not reached).
AnalyzeResume ==
  /\ page.isAnalyzing
  /\ inv[1].pc = "Done"
  /\ page' = handleAnalyzeResume(page, inv[1])
  /\ UNCHANGED <<inv, savedCVs, now>>

(***************************************************************************)
(* CVService: the CVs saved in localStorage                                *)
(***************************************************************************)
\* The saves localStorage has room for, and the milliseconds the clock runs.
MaxSaved == 3
MaxClock == 2

Digits == <<"0", "1", "2", "3", "4", "5", "6", "7", "8", "9">>

\* Number.prototype.toString for a natural number: its decimal digits.
RECURSIVE toString(_)
toString(n) ==
  IF n < 10 THEN <<Digits[n + 1]>> ELSE toString(n \div 10) \o <<Digits[(n % 10) + 1]>>

\* getSavedCVs: the parsed item, [] when the item is not there.
getSavedCVs == IF savedCVs = <<>> THEN <<>> ELSE savedCVs[1]

\* saveCVToLocal up to savedCVs.push(cvToSave): the array to store.
saveCVToLocal(cvData, name) ==
  Append(getSavedCVs, [ content |-> cvData.content, id |-> toString(now),
                        name |-> name, savedAt |-> now ])

\* deleteSavedCV up to setItem: savedCVs.filter(cv => cv.id !== id).
deleteSavedCV(id) == SelectSeq(getSavedCVs, LAMBDA cv : cv.id # id)

\* The CVs that are saved and the names they are saved under.
CVDatas == {[content |-> <<"x">>], [content |-> <<"y">>]}
CVNames == {"cv", "mine"}

\* saveCVToLocal; setItem throws when the quota is exceeded, and the item
\* stays as it was.
SaveCVToLocal(cvData, name) ==
  /\ savedCVs' = IF Len(saveCVToLocal(cvData, name)) > MaxSaved
                   THEN savedCVs
                   ELSE <<saveCVToLocal(cvData, name)>>
  /\ UNCHANGED <<inv, page, now>>

DeleteSavedCV(id) ==
  /\ savedCVs' = <<deleteSavedCV(id)>>
  /\ UNCHANGED <<inv, page, now>>

\* A millisecond passes.
Tick ==
  /\ now - 8 < MaxClock
  /\ now' = now + 1
  /\ UNCHANGED <<inv, page, savedCVs>>

Init ==
  /\ inv = [i \in Invocations |-> IdleFrame]
  /\ page = InitialPage
  /\ savedCVs = <<>>
  /\ now = 8

(***************************************************************************)
(* Spec: one caller at a time, every preference, every response.           *)
(***************************************************************************)
Next ==
  \/ \E t \in Texts, p \in PreferenceArgs : NoneInFlight /\ Call(1, t, p)
  \/ Resume(1)
  \/ Settle(1, Responses(inv[1].apiPreference))
  \/ Return(1)

Spec == Init /\ [][Next]_vars

\* The event loop runs every continuation that is ready, and the transport
\* settles every request: with a response, a network error or its deadline.
LiveSpec ==
  /\ Spec
  /\ WF_vars(Resume(1))
  /\ WF_vars(Settle(1, Responses(inv[1].apiPreference)))

(***************************************************************************)
(* ConcSpec: the callers invoke getATSScore concurrently.                  *)
(***************************************************************************)
ConcNext ==
  \E i \in Invocations :
    \/ \E t \in ConcTexts, p \in {"resumeworded", "huggingface", "local"} : Call(i, t, p)
    \/ Resume(i)
    \/ Settle(i, ConcResponses(inv[i].apiPreference))
    \/ Return(i)

ConcSpec == Init /\ [][ConcNext]_vars

(***************************************************************************)
(* ScorerSpec: the local heuristic scorer applied to one text at a time.   *)
(***************************************************************************)
ScorerNext ==
  \/ \E t \in ScorerTexts, p \in {"local", "undefined"} : NoneInFlight /\ Call(1, t, p)
  \/ InvokeLocal(1)
  \/ Return(1)

ScorerSpec == Init /\ [][ScorerNext]_vars

(***************************************************************************)
(* KeywordSpec: the local scorer on the short texts that matter to keyword *)
(* matching (terms next to each other, terms inside other words, a term    *)
(* split by a second space), one text at a time.                           *)
(***************************************************************************)
KeywordTexts ==
  TextsOver({TokPython, TokRestApi, TokMachineLearning, TokMachineGapLearning,
             TokAnalyticalSkills, TokInterest}, MaxFrags)
  \cup {FirstKeywords(n) : n \in 0..Len(commonKeywords)}

KeywordNext ==
  \/ \E t \in KeywordTexts, p \in {"local", "undefined"} : NoneInFlight /\ Call(1, t, p)
  \/ InvokeLocal(1)
  \/ Return(1)

KeywordSpec == Init /\ [][KeywordNext]_vars

(***************************************************************************)
(* PageSpec: the user's events on the ATS score page, the FileReaders and  *)
(* the analysis, which calls getATSScore(cvText, 'local').                 *)
(***************************************************************************)
PageNext ==
  \/ \E files \in FileLists : FileUpload(files)
  \/ \E file \in page.readers : ReaderOnload(file)
  \/ ChangeFileClick
  \/ AnalyzeClick
  \/ InvokeLocal(1)
  \/ AnalyzeResume

PageSpec == Init /\ [][PageNext]_vars

(***************************************************************************)
(* StorageSpec: saves and deletions of CVs as the clock advances.          *)
(***************************************************************************)
StorageNext ==
  \/ \E cvData \in CVDatas, name \in CVNames : SaveCVToLocal(cvData, name)
  \/ \E n \in 8..(8 + MaxClock) : DeleteSavedCV(toString(n))
  \/ Tick

StorageSpec == Init /\ [][StorageNext]_vars

(***************************************************************************)
(* Claims                                                                  *)
(***************************************************************************)
\* The selected adapter of the invocation with frame f has failed: the fetch
\* was rejected, the status was not a success, the body could not be parsed,
\* or anything else threw inside the adapter (its catch block logged it).
AdapterFailed(f) ==
  /\ f.apiPreference \in RemotePreferences
  /\ \/ f.fetch \in {"network", "timeout"}
     \/ f.fetch = "response" /\ ~f.response[1].ok
     \/ f.fetch = "response" /\ f.response[1].ok /\ f.response[1].body = <<>>
     \/ f.errors # <<>>

Settled(f) == f.pc = "Done"

\* C1: when the selected remote adapter fails, getATSScore returns exactly
\* what calculateLocalATSScore returns on the same text, field for field.
C1_FallbackEqualsLocal ==
  \A i \in Invocations :
    (Settled(inv[i]) /\ AdapterFailed(inv[i]))
      => inv[i].result = <<calculateLocalATSScore(inv[i].cvText)>>

\* A fallback after a network error, on a text with a catalog keyword.
C1_Witness ==
  \E i \in Invocations :
    /\ Settled(inv[i])
    /\ inv[i].fetch = "network"
    /\ inv[i].apiPreference = "huggingface"
    /\ inv[i].result[1].keywords # <<>>

\* C2: getATSScore never rejects: whatever the provider does, the promise
\* resolves, and it resolves with a ScoreResult.
C2_NeverRejects ==
  \A i \in Invocations :
    /\ inv[i].pc # "Rejected"
    /\ Settled(inv[i]) => Len(inv[i].result) = 1

\* The promise resolved although the provider's body was unparsable.
C2_Witness ==
  \E i \in Invocations :
    /\ Settled(inv[i])
    /\ inv[i].fetch = "response"
    /\ inv[i].response[1].ok
    /\ inv[i].response[1].body = <<>>
    /\ Len(inv[i].result) = 1

\* C3: every score getATSScore returns is an integer in [0,100].
C3_ScoreIntegerInRange ==
  \A i \in Invocations :
    Settled(inv[i]) =>
      /\ inv[i].result[1].score % 100 = 0
      /\ 0 <= inv[i].result[1].score
      /\ inv[i].result[1].score <= Num(100)

\* C4: the score of calculateLocalATSScore is in [0,100].
C4_LocalScoreInRange ==
  \A i \in Invocations :
    Settled(inv[i]) =>
      /\ 0 <= inv[i].result[1].score
      /\ inv[i].result[1].score <= Num(100)

\* The local scorer returned the upper bound, 100.
C4_Witness ==
  \E i \in Invocations : Settled(inv[i]) /\ inv[i].result[1].score = Num(100)

\* C5: every breakdown sub-score of calculateLocalATSScore is an integer in
\* [0,100].
SubScoreOk(x) == x % 100 = 0 /\ 0 <= x /\ x <= Num(100)

C5_BreakdownInRange ==
  \A i \in Invocations :
    Settled(inv[i]) =>
      /\ Len(inv[i].result[1].breakdown) = 1
      /\ LET b == inv[i].result[1].breakdown[1]
         IN  /\ SubScoreOk(b.keywordMatch)
             /\ SubScoreOk(b.formatting)
             /\ SubScoreOk(b.structure)
             /\ SubScoreOk(b.contentQuality)

\* All four section penalties and the layout and short-text penalties fired.
C5_Witness ==
  \E i \in Invocations :
    /\ Settled(inv[i])
    /\ inv[i].result[1].breakdown[1].structure = Num(15)
    /\ inv[i].result[1].breakdown[1].formatting = Num(55)

\* C6: keywords and missingKeywords are disjoint subsets of the catalog and
\* missingKeywords has at most 5 elements.
Range(a) == {a[k] : k \in 1..Len(a)}

C6_KeywordsDisjoint ==
  \A i \in Invocations :
    Settled(inv[i]) =>
      LET r == inv[i].result[1]
      IN  /\ Range(r.keywords) \cap Range(r.missingKeywords) = {}
          /\ Range(r.keywords) \subseteq Range(commonKeywords)
          /\ Range(r.missingKeywords) \subseteq Range(commonKeywords)
          /\ Len(r.missingKeywords) <= 5

\* The first catalog term was found and 5 others are reported missing.
C6_Witness ==
  \E i \in Invocations :
    /\ Settled(inv[i])
    /\ arrayIncludes(inv[i].result[1].keywords, commonKeywords[1])
    /\ Len(inv[i].result[1].missingKeywords) = 5

\* C7: the selected strategy is invoked once and never retried; the local
\* fallback runs at most once, only after the selected strategy failed and
\* not when it succeeded; the invocation is done after at most one hop.
StrategyFailed(f) == f.errors # <<>> /\ f.errors[1] = AdapterErrorLog(f.apiPreference)

C7_OneAttemptOneHop ==
  \A i \in Invocations :
    /\ inv[i].strategyCalls <= 1
    /\ inv[i].fallbackCalls <= 1
    /\ inv[i].fallbackCalls = 1 =>
         (inv[i].strategyCalls = 1 /\ inv[i].apiPreference \in RemotePreferences
            /\ StrategyFailed(inv[i]))
    /\ inv[i].pc = "Fallback" => (inv[i].strategyCalls = 1 /\ inv[i].fallbackCalls = 0)
    /\ Settled(inv[i]) =>
         /\ inv[i].strategyCalls = 1
         /\ inv[i].fallbackCalls = 1 <=> AdapterFailed(inv[i])

\* Done after one attempt and one fallback hop.
C7_Witness ==
  \E i \in Invocations :
    /\ Settled(inv[i])
    /\ inv[i].strategyCalls = 1
    /\ inv[i].fallbackCalls = 1

\* C8: an invocation issues at most one request, to the endpoint of the
\* selected provider; with the preference 'local' or omitted it issues none.
C8_AtMostOneRequest ==
  \A i \in Invocations :
    /\ Len(inv[i].requests) <= 1
    /\ inv[i].requests # <<>> =>
         (inv[i].prefArg \in RemotePreferences
            /\ inv[i].requests[1] = Endpoint(inv[i].prefArg))
    /\ inv[i].prefArg \in {"local", "undefined"} => inv[i].requests = <<>>

\* Done after a failed request and the fallback: still one request.
C8_Witness ==
  \E i \in Invocations :
    /\ Settled(inv[i])
    /\ inv[i].fallbackCalls = 1
    /\ Len(inv[i].requests) = 1

ExpectedResult(f) ==
  IF f.apiPreference \notin RemotePreferences
    THEN calculateLocalATSScore(f.cvText)
  ELSE IF \/ f.fetch # "response"
          \/ ~f.response[1].ok
          \/ f.response[1].body = <<>>
          \/ adapterMap(f.apiPreference, f.cvText, f.response[1].body[1]).threw
    THEN calculateLocalATSScore(f.cvText)
  ELSE adapterMap(f.apiPreference, f.cvText, f.response[1].body[1]).value[1]

C10_IndependentInvocations ==
  /\ [](\A i \in Invocations :
          Settled(inv[i]) => inv[i].result = <<ExpectedResult(inv[i])>>)
  /\ [][\E i \in Invocations :
          \A j \in Invocations \ {i} : inv'[j] = inv[j]]_vars

\* Two invocations are done at once, one with the provider's result and one
\* with the local fallback's.
C10_Witness ==
  /\ Settled(inv[1]) /\ Settled(inv[2])
  /\ inv[1].fallbackCalls = 0 /\ inv[1].apiPreference = "resumeworded"
  /\ inv[2].fallbackCalls = 1
  /\ inv[1].result # inv[2].result

\* The three suggestion lists, as the specification words them.
CorrectiveSuggestions ==
  << "Add more relevant keywords from the job description",
     "Include quantifiable achievements and metrics",
     "Use action verbs to describe your experience" >>
RefinementSuggestions ==
  << "Consider adding more industry-specific terminology",
     "Ensure all required sections are present",
     "Remove any complex formatting or tables" >>
AffirmingSuggestions ==
  << "Great job! Your CV is well-optimized for ATS",
     "Consider customizing keywords for specific job applications" >>

\* What the scenarios say of an input text t.
HasAllMarkers(t) ==
  /\ includes(toLowerCase(t), kwEmail)
  /\ includes(toLowerCase(t), kwExperience)
  /\ includes(toLowerCase(t), kwEducation)
  /\ includes(toLowerCase(t), kwSkills)
HasLayoutWord(t) ==
  includes(toLowerCase(t), kwTable) \/ includes(toLowerCase(t), kwImage)
CatalogTermsIn(t) ==
  {k \in 1..Len(commonKeywords) : includes(toLowerCase(t), commonKeywords[k])}

IsScenarioB(t) ==
  HasAllMarkers(t) /\ CatalogTermsIn(t) = {} /\ wordsLength(t) = 250

\* C11 as stated: in scenario B (the four markers, no catalog keyword, 250
\* words) structure = 100, formatting = 100, keywordMatch = 0, the score is
\* 30 and the suggestions are those of the band score < 60.
C11_ScenarioB_AsStated ==
  \A i \in Invocations :
    (Settled(inv[i]) /\ IsScenarioB(inv[i].cvText)) =>
      LET r == inv[i].result[1]
      IN  /\ r.breakdown[1].structure = Num(100)
          /\ r.breakdown[1].formatting = Num(100)
          /\ r.breakdown[1].keywordMatch = 0
          /\ r.score = Num(30)
          /\ r.suggestions = CorrectiveSuggestions

\* C11 amended: in scenario B with neither "table" nor "image" in the text,
\* structure = 100, formatting = 100, keywordMatch = 0, the score is
\* round(0.3 x 100 + 0.3 x 100) = 60 and the suggestions are those of the
\* band 60 <= score < 80.
C11_ScenarioB ==
  \A i \in Invocations :
    (Settled(inv[i]) /\ IsScenarioB(inv[i].cvText) /\ ~HasLayoutWord(inv[i].cvText)) =>
      LET r == inv[i].result[1]
      IN  /\ r.breakdown[1].structure = Num(100)
          /\ r.breakdown[1].formatting = Num(100)
          /\ r.breakdown[1].keywordMatch = 0
          /\ r.score = Num(60)
          /\ r.suggestions = RefinementSuggestions

\* The local scorer has scored a scenario B text.
C11_Witness ==
  \E i \in Invocations :
    /\ Settled(inv[i])
    /\ IsScenarioB(inv[i].cvText) /\ ~HasLayoutWord(inv[i].cvText)
    /\ inv[i].result[1].score = Num(60)

\* C12: for the empty string the local scorer gives structure = 15,
\* keywordMatch = 0, formatting = 85 and the score 30, and does not fail.
C12_ScenarioA ==
  \A i \in Invocations :
    /\ inv[i].cvText = <<>> => inv[i].pc # "Rejected"
    /\ (Settled(inv[i]) /\ inv[i].cvText = <<>>) =>
         LET r == inv[i].result[1]
         IN  /\ r.breakdown[1].structure = Num(15)
             /\ r.breakdown[1].keywordMatch = 0
             /\ r.breakdown[1].formatting = Num(85)
             /\ r.score = Num(30)

\* The local scorer has returned a result for the empty string.
C12_Witness ==
  \E i \in Invocations :
    /\ Settled(inv[i])
    /\ inv[i].cvText = <<>>
    /\ Len(inv[i].result) = 1
    /\ inv[i].result[1].score = Num(30)

IsScenarioC(t) ==
  /\ Cardinality(CatalogTermsIn(t)) = 22
  /\ HasAllMarkers(t)
  /\ ~HasLayoutWord(t)
  /\ wordsLength(t) = 500

\* C13: in scenario C (500 words, all 22 catalog keywords, the four markers,
\* neither "table" nor "image") keywordMatch, formatting, structure and the
\* score are 100, missingKeywords is empty and the suggestions are those of
\* the band score >= 80.
C13_ScenarioC ==
  \A i \in Invocations :
    (Settled(inv[i]) /\ IsScenarioC(inv[i].cvText)) =>
      LET r == inv[i].result[1]
      IN  /\ r.breakdown[1].keywordMatch = Num(100)
          /\ r.breakdown[1].formatting = Num(100)
          /\ r.breakdown[1].structure = Num(100)
          /\ r.score = Num(100)
          /\ r.missingKeywords = <<>>
          /\ r.suggestions = AffirmingSuggestions

\* The local scorer has scored a scenario C text.
C13_Witness ==
  \E i \in Invocations :
    /\ Settled(inv[i])
    /\ IsScenarioC(inv[i].cvText)
    /\ Len(inv[i].result[1].keywords) = 22

\* The list the specification assigns to a score (in hundredths) by its band.
ListOfBand(score) ==
  IF score < Num(60) THEN CorrectiveSuggestions
  ELSE IF score < Num(80) THEN RefinementSuggestions
  ELSE AffirmingSuggestions

\* C14: generateSuggestions gives the corrective list for score < 60, the
\* refinement list for 60 <= score < 80 and the affirming list for
\* score >= 80; 60 and 80 belong to the higher band, and the list depends on
\* the band only.
C14_SuggestionsByBand ==
  \A i \in Invocations :
    Settled(inv[i]) =>
      LET r == inv[i].result[1]
      IN  /\ r.suggestions = ListOfBand(r.score)
          /\ r.score = Num(60) => r.suggestions = RefinementSuggestions
          /\ r.score = Num(80) => r.suggestions = AffirmingSuggestions
          /\ r.score = Num(59) => r.suggestions = CorrectiveSuggestions
          /\ r.score = Num(79) => r.suggestions = RefinementSuggestions

\* A result with the boundary score 80 carries the affirming list.
C14_Witness ==
  \E i \in Invocations :
    /\ Settled(inv[i])
    /\ inv[i].result[1].score = Num(80)
    /\ inv[i].result[1].suggestions = AffirmingSuggestions

\* round(0.4 x (100 n / 22) + 0.3 x formatting + 0.3 x structure) for n found
\* keywords and sub-scores given in hundredths, clamped to [0,100], in
\* hundredths.
WeightedScore(n, formatting, structure) ==
  LET num == 40000 * n + 66 * (formatting + structure)
      rounded == (2 * num + 22000) \div 44000
  IN  Num(IF rounded < 0 THEN 0 ELSE IF rounded > 100 THEN 100 ELSE rounded)

\* The same with the keyword percentage rounded first, as the breakdown
\* reports it (keywordMatch in hundredths).
WeightedScoreOfBreakdown(keywordMatch, formatting, structure) ==
  LET num == 4 * keywordMatch + 3 * (formatting + structure)
      rounded == (2 * num + 1000) \div 2000
  IN  Num(IF rounded < 0 THEN 0 ELSE IF rounded > 100 THEN 100 ELSE rounded)

\* C15: the score of calculateLocalATSScore is round(0.4 x keywordMatch +
\* 0.3 x formatting + 0.3 x structure) clamped to [0,100], keywordMatch being
\* the unrounded match percentage; contentQuality is 75 and takes no part.
C15_WeightedAggregate ==
  \A i \in Invocations :
    Settled(inv[i]) =>
      LET r == inv[i].result[1]
          b == r.breakdown[1]
      IN  /\ r.score = WeightedScore(Cardinality(CatalogTermsIn(inv[i].cvText)),
                                     b.formatting, b.structure)
          /\ b.contentQuality = Num(75)

\* A result whose score differs from the one the rounded keywordMatch of the
\* breakdown would give: the unrounded percentage was used.
C15_Witness ==
  \E i \in Invocations :
    /\ Settled(inv[i])
    /\ LET r == inv[i].result[1]
           b == r.breakdown[1]
       IN  /\ r.score = WeightedScore(Cardinality(CatalogTermsIn(inv[i].cvText)),
                                      b.formatting, b.structure)
           /\ r.score # WeightedScoreOfBreakdown(b.keywordMatch, b.formatting, b.structure)

\* t with one catalog keyword put at its beginning or at its end.
AddedAtEnds(t) ==
  {t \o commonKeywords[k] : k \in 1..Len(commonKeywords)}
  \cup {commonKeywords[k] \o t : k \in 1..Len(commonKeywords)}

\* t with one catalog keyword put in at any position.
AddedAnywhere(t) ==
  {SubSeq(t, 1, p) \o commonKeywords[k] \o SubSeq(t, p + 1, Len(t)) :
     p \in 0..Len(t), k \in 1..Len(commonKeywords)}

\* The scorer's result r for t and its result for t2 are monotone.
MonotoneTo(r, t2) ==
  LET r2 == calculateLocalATSScore(t2)
  IN  /\ r2.breakdown[1].keywordMatch >= r.breakdown[1].keywordMatch
      /\ Range(r.keywords) \subseteq Range(r2.keywords)

\* C16 as stated: for every text t' obtained from t by adding a catalog
\* keyword (anywhere in t) and nothing else, keywordMatch of t' is not lower
\* than that of t and every keyword found in t is found in t'.
C16_Monotone_AsStated ==
  \A i \in Invocations :
    Settled(inv[i]) =>
      \A t2 \in AddedAnywhere(inv[i].cvText) : MonotoneTo(inv[i].result[1], t2)

\* C16 amended: for every text t' obtained from t by putting a catalog
\* keyword at the beginning or at the end of t, keywordMatch of t' is not
\* lower than that of t and every keyword found in t is found in t'.
C16_Monotone ==
  \A i \in Invocations :
    Settled(inv[i]) =>
      \A t2 \in AddedAtEnds(inv[i].cvText) : MonotoneTo(inv[i].result[1], t2)

\* A scored text with a keyword found, to which a keyword can be added that
\* raises keywordMatch.
C16_Witness ==
  \E i \in Invocations :
    /\ Settled(inv[i])
    /\ inv[i].result[1].keywords # <<>>
    /\ \E t2 \in AddedAtEnds(inv[i].cvText) :
         calculateLocalATSScore(t2).breakdown[1].keywordMatch
           > inv[i].result[1].breakdown[1].keywordMatch

\* The result of f was computed by calculateLocalATSScore (as the selected
\* strategy or as the fallback).
ScoredLocally(f) ==
  /\ Settled(f)
  /\ f.apiPreference \notin RemotePreferences \/ f.fallbackCalls = 1

MappedByAdapter(f) ==
  /\ Settled(f)
  /\ f.apiPreference \in RemotePreferences
  /\ f.fallbackCalls = 0

\* C18: when a remote adapter maps a successful response, every field the
\* provider omits is set to its safe default: 0 for score, an empty
\* collection for suggestions, keywords and missingKeywords.
C18_OmittedFieldsDefaulted ==
  \A i \in Invocations :
    (MappedByAdapter(inv[i]) /\ inv[i].apiPreference = "resumeworded") =>
      LET data == inv[i].response[1].body[1]
          r == inv[i].result[1]
      IN  /\ data.score = <<>> => r.score = 0
          /\ data.suggestions = <<>> => r.suggestions = <<>>
          /\ data.keywords = <<>> => r.keywords = <<>>
          /\ data.missing_keywords = <<>> => r.missingKeywords = <<>>

\* The provider answered with a success status and a body of unexpected
\* shape: not parsable, null, or without any of the expected fields.
MalformedSuccess(f) ==
  /\ f.apiPreference \in RemotePreferences
  /\ f.fetch = "response"
  /\ f.response[1].ok
  /\ \/ f.response[1].body = <<>>
     \/ f.response[1].body[1].isNull
     \/ f.response[1].body[1] = EmptyData

\* C19: a success response with an unexpected payload shape (missing fields,
\* null or non-parsable body) is mapped by the adapter to a result with
\* defaulted fields; the adapter raises no error and no fallback is
\* triggered.
C19_MalformedMappedNotRaised ==
  \A i \in Invocations :
    MalformedSuccess(inv[i]) =>
      /\ inv[i].pc \notin {"adapterCatch", "Fallback", "Rejected"}
      /\ inv[i].errors = <<>>
      /\ inv[i].fallbackCalls = 0
      /\ Settled(inv[i]) =>
           inv[i].result =
             adapterMap(inv[i].apiPreference, inv[i].cvText, EmptyData).value

\* C20: when the result comes from a remote adapter whose provider supplied
\* no suggestion text, its suggestions are the suggestion generator's list
\* for its score, not an empty list.
C20_SuggestionsGenerated ==
  \A i \in Invocations :
    (/\ MappedByAdapter(inv[i])
     /\ inv[i].response[1].body[1].suggestions = <<>>) =>
      /\ inv[i].result[1].suggestions = ListOfBand(inv[i].result[1].score)
      /\ inv[i].result[1].suggestions # <<>>

\* C21: a result of getATSScore carries a breakdown exactly when the local
\* scorer computed it (selected directly or reached by fallback); a result
\* produced by a remote adapter carries none.
C21_BreakdownIffLocal ==
  \A i \in Invocations :
    Settled(inv[i]) =>
      /\ ScoredLocally(inv[i]) <=> Len(inv[i].result[1].breakdown) = 1
      /\ MappedByAdapter(inv[i]) <=> inv[i].result[1].breakdown = <<>>

\* A result mapped by the summarization adapter, without a breakdown.
C21_Witness ==
  \E i \in Invocations :
    /\ MappedByAdapter(inv[i])
    /\ inv[i].apiPreference = "huggingface"
    /\ inv[i].result[1].breakdown = <<>>

\* The fields of a result that are populated: the four required ones, and
\* breakdown when it is there.
PopulatedFields(r) ==
  {"score", "suggestions", "keywords", "missingKeywords"}
  \cup (IF r.breakdown # <<>> THEN {"breakdown"} ELSE {})

\* Two invocations with the same remote preference have returned, one with
\* the provider's answer and one with the local fallback's.
BothPaths(f, g) ==
  /\ f.apiPreference \in RemotePreferences
  /\ f.apiPreference = g.apiPreference
  /\ MappedByAdapter(f)
  /\ Settled(g) /\ g.fallbackCalls = 1

\* C22 as stated: for a remote preference the result of the provider's
\* answer and the result of the local fallback have the same set of
\* populated fields; only the logged error differs.
C22_SameShape_AsStated ==
  \A i, j \in Invocations :
    BothPaths(inv[i], inv[j]) =>
      /\ PopulatedFields(inv[i].result[1]) = PopulatedFields(inv[j].result[1])
      /\ inv[i].errors = <<>> /\ inv[j].errors # <<>>

\* C22 amended: for a remote preference both paths return the four required
\* fields; the fallback's result carries a breakdown and the provider's does
\* not, and the fallback is logged (the adapter's error first) while the
\* provider's answer logs nothing.
C22_SameRequiredFields ==
  \A i, j \in Invocations :
    BothPaths(inv[i], inv[j]) =>
      /\ PopulatedFields(inv[i].result[1]) = {"score", "suggestions", "keywords", "missingKeywords"}
      /\ PopulatedFields(inv[j].result[1]) = PopulatedFields(inv[i].result[1]) \cup {"breakdown"}
      /\ inv[i].errors = <<>>
      /\ Len(inv[j].errors) = 2
      /\ inv[j].errors[1] = AdapterErrorLog(inv[j].apiPreference)

\* Two invocations on the same text with the same remote preference, one
\* answered by the provider and one by the fallback.
C22_Witness ==
  \E i, j \in Invocations :
    /\ BothPaths(inv[i], inv[j])
    /\ inv[i].cvText = inv[j].cvText
    /\ inv[i].apiPreference = "resumeworded"

\* The catalog terms of a list that occur in the lowercased text t.
TermsIn(catalog, t) == {k \in 1..Len(catalog) : includes(toLowerCase(t), catalog[k])}

\* C23: for every text and every summary (also an empty or a missing one)
\* the score of the summarization adapter lies in [70,100]: 70, plus 10 for
\* a summary longer than 50 characters, plus 15 x (technical keywords found
\* / 5), plus 5 x (action verbs found / 4).
C23_SyntheticScoreInRange ==
  \A i \in Invocations :
    (MappedByAdapter(inv[i]) /\ inv[i].apiPreference = "huggingface") =>
      LET data == inv[i].response[1].body[1]
          long == data.summary_text # <<>> /\ Len(data.summary_text[1]) > 50
          score == inv[i].result[1].score
      IN  /\ Num(70) <= score /\ score <= Num(100)
          /\ score = Num(70) + (IF long THEN Num(10) ELSE 0)
                     + 300 * Cardinality(TermsIn(techKeywords, inv[i].cvText))
                     + 125 * Cardinality(TermsIn(actionVerbs, inv[i].cvText))

\* The summarization adapter has scored a text without a non-trivial summary
\* and with an action verb in it.
C23_Witness ==
  \E i \in Invocations :
    /\ MappedByAdapter(inv[i])
    /\ inv[i].apiPreference = "huggingface"
    /\ inv[i].response[1].body[1].summary_text = <<>>
    /\ TermsIn(actionVerbs, inv[i].cvText) # {}
    /\ inv[i].result[1].score > Num(70)

\* C24: the score of the entity-extraction adapter is min(100, 70 +
\* min(20, 2 x N) + B), N being the number of entities of the provider's
\* response with salience > 0.01, whatever their type, and B being 10 when
\* an entity of type ORGANIZATION or OTHER is present, else 0; the score
\* lies in [70,100].
C24_EntityScore ==
  \A i \in Invocations :
    (MappedByAdapter(inv[i]) /\ inv[i].apiPreference = "google") =>
      LET data == inv[i].response[1].body[1]
          es == IF data.entities = <<>> THEN <<>> ELSE data.entities[1]
          N == Cardinality({k \in 1..Len(es) : es[k].salience > 10})
          B == IF \E k \in 1..Len(es) : es[k].type \in {"ORGANIZATION", "OTHER"}
                 THEN 10 ELSE 0
          score == inv[i].result[1].score
      IN  /\ score = Num(Min(100, 70 + Min(20, 2 * N) + B))
          /\ Num(70) <= score /\ score <= Num(100)

\* C25: the formatting sub-score is 100, minus 30 when the lowercased text
\* contains "table" or "image" (once, also when both occur), minus 20 when
\* the word count is > 2000, minus 15 when it is < 200; 200 and 2000 words
\* incur no length penalty, the two length penalties never fire together,
\* and the sub-score is one of 100, 85, 80, 70, 55, 50.
C25_Formatting ==
  \A i \in Invocations :
    ScoredLocally(inv[i]) =>
      LET n == wordsLength(toLowerCase(inv[i].cvText))
          layout == IF HasLayoutWord(inv[i].cvText) THEN 30 ELSE 0
          long == IF n > 2000 THEN 20 ELSE 0
          short == IF n < 200 THEN 15 ELSE 0
          formatting == inv[i].result[1].breakdown[1].formatting
      IN  /\ formatting = Num(100 - layout - long - short)
          /\ n \in {200, 2000} => formatting = Num(100 - layout)
          /\ long = 0 \/ short = 0
          /\ formatting \in {Num(100), Num(85), Num(80), Num(70), Num(55), Num(50)}

\* A text of exactly 2000 words with a layout word in it has been scored 70.
C25_Witness ==
  \E i \in Invocations :
    /\ ScoredLocally(inv[i])
    /\ wordsLength(toLowerCase(inv[i].cvText)) = 2000
    /\ HasLayoutWord(inv[i].cvText)
    /\ inv[i].result[1].breakdown[1].formatting = Num(70)

\* C26: the structure sub-score is 100, minus 20 when the lowercased text
\* contains neither "email" nor "@" (one of them is enough), minus 25
\* without "experience", minus 20 without "education", minus 20 without
\* "skills"; the penalties are independent, all four can fire, and the
\* sub-score is never below 15.
C26_Structure ==
  \A i \in Invocations :
    ScoredLocally(inv[i]) =>
      LET text == toLowerCase(inv[i].cvText)
          contact == IF includes(text, kwEmail) \/ includes(text, kwAt) THEN 0 ELSE 20
          experience == IF includes(text, kwExperience) THEN 0 ELSE 25
          education == IF includes(text, kwEducation) THEN 0 ELSE 20
          skills == IF includes(text, kwSkills) THEN 0 ELSE 20
          structure == inv[i].result[1].breakdown[1].structure
      IN  /\ structure = Num(100 - contact - experience - education - skills)
          /\ structure >= Num(15)

\* A text with "@" and without "email", "experience", "education" and
\* "skills" has been scored: three penalties, the contact one avoided.
C26_Witness ==
  \E i \in Invocations :
    /\ ScoredLocally(inv[i])
    /\ includes(toLowerCase(inv[i].cvText), kwAt)
    /\ ~includes(toLowerCase(inv[i].cvText), kwEmail)
    /\ inv[i].result[1].breakdown[1].structure = Num(35)

\* The position of a term in the catalog.
CatalogIndex(term) == CHOOSE k \in 1..Len(commonKeywords) : commonKeywords[k] = term

\* The terms of list a are catalog terms in catalog order, none twice.
InCatalogOrder(a) ==
  /\ \A m \in 1..Len(a) : arrayIncludes(commonKeywords, a[m])
  /\ \A m \in 1..(Len(a) - 1) : CatalogIndex(a[m]) < CatalogIndex(a[m + 1])

\* C27: keywords is the list of the catalog terms that occur in the
\* lowercased text, in catalog order; missingKeywords is the first 5, in
\* catalog order, of the catalog terms not in keywords (all of them when
\* fewer than 5); breakdown.keywordMatch is round(100 x |keywords| / 22).
C27_KeywordLists ==
  \A i \in Invocations :
    ScoredLocally(inv[i]) =>
      LET r == inv[i].result[1]
          matched == CatalogTermsIn(inv[i].cvText)
          unmatched == (1..Len(commonKeywords)) \ matched
      IN  /\ InCatalogOrder(r.keywords)
          /\ {CatalogIndex(r.keywords[m]) : m \in 1..Len(r.keywords)} = matched
          /\ InCatalogOrder(r.missingKeywords)
          /\ Len(r.missingKeywords) = Min(5, Cardinality(unmatched))
          /\ \A m \in 1..Len(r.missingKeywords) :
               LET k == CatalogIndex(r.missingKeywords[m])
               IN  k \in unmatched /\ Cardinality({u \in unmatched : u < k}) = m - 1
          /\ r.breakdown[1].keywordMatch
               = Num((200 * Cardinality(matched) + 22) \div 44)

\* A text with fewer than 5 unmatched catalog terms has been scored: every
\* catalog term is in one of the two lists.
C27_Witness ==
  \E i \in Invocations :
    /\ ScoredLocally(inv[i])
    /\ Len(inv[i].result[1].missingKeywords) \in 1..4
    /\ Len(inv[i].result[1].keywords) + Len(inv[i].result[1].missingKeywords) = 22

\* C28: the suggestions of calculateLocalATSScore are those of
\* generateSuggestions for the returned score: they are computed from the
\* unclamped total, which is never below 20 nor above 100, so the clamp
\* changes nothing and the band is the band of the score.
C28_SuggestionsMatchScore ==
  \A i \in Invocations :
    ScoredLocally(inv[i]) =>
      LET r == inv[i].result[1]
          text == toLowerCase(inv[i].cvText)
          total == totalScore(Len(foundKeywords(text)), Len(commonKeywords),
                              formattingScore(text, wordsLength(text)),
                              structureScore(text))
      IN  /\ r.suggestions = generateSuggestions(r.score)
          /\ 20 <= total /\ total <= 100
          /\ r.score = Num(total)

\* The lowest total, 20, has been returned with the corrective suggestions.
C28_Witness ==
  \E i \in Invocations :
    /\ ScoredLocally(inv[i])
    /\ inv[i].result[1].score = Num(20)
    /\ inv[i].result[1].suggestions = generateSuggestions(Num(20))

\* C29: whenever handleAnalyze has computed a score, the text it scored is
\* the text of the currently selected file, never that of a file uploaded
\* before it.
C29_ScoresSelectedFile ==
  page.atsScore # <<>> =>
    /\ page.uploadedFile # <<>>
    /\ inv[1].cvText = page.uploadedFile[1].content
    /\ page.atsResult = <<calculateLocalATSScore(page.uploadedFile[1].content)>>

\* C30: the saved CVs have pairwise distinct ids (also when two are saved
\* within one millisecond), so that deleteSavedCV(id) removes exactly one
\* entry.
C30_DistinctIds ==
  \A a, b \in 1..Len(getSavedCVs) :
    a # b => getSavedCVs[a].id # getSavedCVs[b].id
=============================================================================
